---- MODULE Spec2Model ----
(***************************************************************************)
(* A model of eboekhouden_client.EBoekhoudenClient: one client instance,   *)
(* its session token, the HTTP requests each call issues and the responses *)
(* the remote service gives.  The client is synchronous and single         *)
(* threaded: one call runs at a time.  Every call is one action, except    *)
(* get_mutations, whose `while True` loop is one action per iteration.     *)
(*                                                                         *)
(* Python values: None is the string "None" (no modelled token, date or    *)
(* credential is that string); a dict is a function from its keys; a list  *)
(* is a sequence; an f-string is a concatenation of strings.               *)
(* requests.Response.raise_for_status() raises HTTPError for the statuses  *)
(* 400..599 and returns for every other status.  Every request is taken to *)
(* get a response (no timeout, no connection error); a response body is a  *)
(* JSON object or is not JSON at all.                                      *)
(***************************************************************************)
EXTENDS Integers, Sequences, FiniteSets, TLC

\* most requests one get_mutations call is followed through in the model
MaxRequests == 4

None == "None"
\* a response body that Response.json() cannot decode
NotJson == [not_json |-> TRUE]

BASE_URL == "https://api.e-boekhouden.nl"
PAGE_LIMIT == 100
api_version == "v1"
api_url == BASE_URL \o "/" \o api_version

\* Python truthiness of an Optional[str]: `not v` holds of None and of "".
Truthy(v) == v # None /\ v # ""

\* dict.get(key) and dict.get(key, default) on a JSON object
DictGet(d, key, default) == IF key \in DOMAIN d THEN d[key] ELSE default

EmptyDict == [k \in {} |-> None]

------------------------------------------------------------------------------
(* The remote service: the inputs of the model. *)

\* a success, a status that is neither 200 nor an error, a 4xx and a 5xx
Statuses == {200, 204, 401, 500}

Tokens == {"tokA", "tokB"}

\* bodies of the session endpoint: a token, an empty token, a null token, no
\* token field, or a body that is not JSON
SessionBodies ==
    {[token |-> t] : t \in Tokens \cup {"", None}} \cup {EmptyDict, NotJson}

\* bodies of the resource endpoints
ResourceBodies == {[id |-> "r1"], [id |-> "r2"], EmptyDict, NotJson}

\* bodies of the mutation listing: pages of items, a page without an items
\* field, a body that is not JSON
Pages == {<<>>, <<"m1">>, <<"m2", "m3">>}
MutationBodies == {[items |-> p] : p \in Pages} \cup {EmptyDict, NotJson}

\* the responses an endpoint gives: the client reads the body of a 200 only,
\* so the other statuses come with one body
Responses(bodies) ==
    {[status |-> 200, body |-> b] : b \in bodies} \cup
    {[status |-> st, body |-> EmptyDict] : st \in Statuses \ {200}}

Ids == {"1", "2"}

\* what the caller passes as credentials, by what json.load(s) makes of it
CredentialInputs ==
    {[loads |-> FALSE, data |-> EmptyDict]} \cup
    {[loads |-> TRUE, data |-> d] :
        d \in {[access_token |-> "at", source |-> "src"],
               [access_token |-> "", source |-> "src"],
               [access_token |-> "at"]}}

StartDates == {None, "", "2024-01-01"}
EndDates == {None, "", "2024-12-31"}
Parameters == {"date", "invoiceDate"}
\* the date_range arguments get_mutations is called with
DateRanges == {None, "EQ", "LTE", "RANGE"}

------------------------------------------------------------------------------
(* enums.DateFilterOperator *)

DateFilterOperator == {"EQ", "NOT_EQ", "GT", "GTE", "LT", "LTE", "RANGE"}

OperatorValue(operator) ==
    CASE operator = "EQ" -> "eq"
      [] operator = "NOT_EQ" -> "not_eq"
      [] operator = "GT" -> "gt"
      [] operator = "GTE" -> "gte"
      [] operator = "LT" -> "lt"
      [] operator = "LTE" -> "lte"
      [] operator = "RANGE" -> "range"

------------------------------------------------------------------------------
(* The errors the client raises, one per raise site. *)

ErrAuthRequired == "ValueError: Authentication required. Call authenticate() first."
ErrOperatorRequired(parameter) ==
    "ValueError: Operator is required for date filtering on " \o parameter
ErrRangeBounds == "ValueError: Range operator requires both start_date and end_date"
ErrStartRequired(operator) ==
    "ValueError: Operator " \o OperatorValue(operator) \o " requires a start_date value"
ErrCredentialFields ==
    "ValueError: Service Account file must contain 'access_token' and 'source' fields."
ErrCredentialLoad == "Failed to load service account credentials"
ErrHTTP == "requests.exceptions.HTTPError"
ErrJSONDecode == "requests.exceptions.JSONDecodeError"

Return(v) == [kind |-> "return", error |-> None, value |-> v]
Raise(e) == [kind |-> "raise", error |-> e, value |-> None]
Running == [kind |-> "running", error |-> None, value |-> None]

\* Response.raise_for_status(): TRUE when it raises HTTPError
raise_for_status(status) == 400 <= status /\ status < 600

\* Response.json(): the decoded body, or a raise
json_raises(body) == body = NotJson

------------------------------------------------------------------------------
(* Pure parts of the client. *)

\* _parse_service_account_file: the pair it stores, or the error it raises
_parse_service_account_file(credentials) ==
    IF ~credentials.loads
    THEN [raised |-> TRUE, error |-> ErrCredentialLoad,
          access_token |-> None, source |-> None]
    ELSE IF ~Truthy(DictGet(credentials.data, "access_token", None))
            \/ ~Truthy(DictGet(credentials.data, "source", None))
    THEN [raised |-> TRUE, error |-> ErrCredentialFields,
          access_token |-> None, source |-> None]
    ELSE [raised |-> FALSE, error |-> None,
          access_token |-> credentials.data["access_token"],
          source |-> credentials.data["source"]]

\* _get_headers on a client whose session token is tok
_get_headers_unchecked(tok) ==
    [raised |-> FALSE, error |-> None,
     headers |-> [accept |-> "application/json",
                  ContentType |-> "application/json",
                  Authorization |-> "Bearer " \o tok]]

_get_headers(tok) ==
    IF ~Truthy(tok)
    THEN [raised |-> TRUE, error |-> ErrAuthRequired, headers |-> EmptyDict]
    ELSE [raised |-> FALSE, error |-> None,
          headers |-> [accept |-> "application/json",
                       ContentType |-> "application/json",
                       Authorization |-> "Bearer " \o tok]]

\* _get_date_filter: the one-pair dict it returns, or the error it raises
_get_date_filter_range_start_only(parameter, operator, start_date, end_date) ==
    IF operator = None
    THEN [raised |-> TRUE, error |-> ErrOperatorRequired(parameter), filter |-> EmptyDict]
    ELSE IF ~Truthy(start_date)
    THEN [raised |-> TRUE,
          error |-> IF operator = "RANGE" THEN ErrRangeBounds ELSE ErrStartRequired(operator),
          filter |-> EmptyDict]
    ELSE IF operator = "RANGE"
    THEN [raised |-> FALSE, error |-> None,
          filter |-> (parameter \o "[" \o OperatorValue(operator) \o "]")
                       :> (start_date \o "," \o end_date)]
    ELSE [raised |-> FALSE, error |-> None,
          filter |-> (parameter \o "[" \o OperatorValue(operator) \o "]")
                       :> start_date]

_get_date_filter(parameter, operator, start_date, end_date) ==
    IF operator = None
    THEN [raised |-> TRUE, error |-> ErrOperatorRequired(parameter), filter |-> EmptyDict]
    ELSE IF operator = "RANGE"
    THEN IF ~Truthy(start_date) \/ ~Truthy(end_date)
         THEN [raised |-> TRUE, error |-> ErrRangeBounds, filter |-> EmptyDict]
         ELSE [raised |-> FALSE, error |-> None,
               filter |-> (parameter \o "[" \o OperatorValue(operator) \o "]")
                            :> (start_date \o "," \o end_date)]
    ELSE IF ~Truthy(start_date)
    THEN [raised |-> TRUE, error |-> ErrStartRequired(operator), filter |-> EmptyDict]
    ELSE [raised |-> FALSE, error |-> None,
          filter |-> (parameter \o "[" \o OperatorValue(operator) \o "]")
                       :> start_date]

------------------------------------------------------------------------------
VARIABLES
    phase,          \* "new": not constructed; "ready": constructed, no call
                    \* running; "paging": inside the loop of get_mutations;
                    \* "failed": __init__ raised, there is no client;
                    \* "filter": a direct call of _get_date_filter (SpecFilter)
    access_token,   \* self.access_token
    source,         \* self.source
    session_token,  \* self.session_token
    closed,         \* history: the token was last written by close()
    call,           \* the running or last call: its name, its arguments and
                    \* the session token and the `closed` it found
    sent,           \* the requests the running or last call has issued
    received,       \* the responses it has received
    outcome,        \* Running, Return(value) or Raise(error)
    params,         \* get_mutations: params
    all_items,      \* get_mutations: all_items
    page_offset     \* get_mutations: page_offset

vars == <<phase, access_token, source, session_token, closed, call, sent,
          received, outcome, params, all_items, page_offset>>

locals == <<params, all_items, page_offset>>

Call(op, args) ==
    [op |-> op, args |-> args, token0 |-> session_token, closed0 |-> closed]

Response(status, body) == [status |-> status, body |-> body]

Init ==
    /\ phase = "new"
    /\ access_token = None
    /\ source = None
    /\ session_token = None
    /\ closed = FALSE
    /\ call = [op |-> None, args |-> EmptyDict, token0 |-> None,
               closed0 |-> FALSE]
    /\ sent = <<>>
    /\ received = <<>>
    /\ outcome = [kind |-> "none", error |-> None, value |-> None]
    /\ params = EmptyDict
    /\ all_items = <<>>
    /\ page_offset = 0

------------------------------------------------------------------------------
(* Session open. *)

SessionRequest(at, src) ==
    [method |-> "POST", url |-> api_url \o "/session",
     headers |-> [accept |-> "application/json",
                  ContentType |-> "application/json"],
     json |-> [accessToken |-> at, source |-> src]]

\* _authenticate after its request got (status, body): the token it leaves in
\* self.session_token and how it ends
_authenticate_response(status, body, tok) ==
    IF status = 200
    THEN IF json_raises(body)
         THEN [token |-> tok, outcome |-> Raise(ErrJSONDecode)]
         ELSE [token |-> DictGet(body, "token", None), outcome |-> Return(None)]
    ELSE IF raise_for_status(status)
    THEN [token |-> tok, outcome |-> Raise(ErrHTTP)]
    ELSE [token |-> tok, outcome |-> Return(None)]

\* EBoekhoudenClient(credentials)
__init__(credentials, status, body) ==
    /\ phase = "new"
    /\ call' = Call("__init__", [credentials |-> credentials])
    /\ LET p == _parse_service_account_file(credentials)
           a == _authenticate_response(status, body, None)
       IN IF p.raised
          THEN /\ phase' = "failed"
               /\ outcome' = Raise(p.error)
               /\ sent' = <<>>
               /\ received' = <<>>
               /\ UNCHANGED <<access_token, source, session_token>>
          ELSE /\ access_token' = p.access_token
               /\ source' = p.source
               /\ sent' = <<SessionRequest(p.access_token, p.source)>>
               /\ received' = <<Response(status, body)>>
               /\ session_token' = a.token
               /\ outcome' = a.outcome
               /\ phase' = IF a.outcome.kind = "raise" THEN "failed" ELSE "ready"
    /\ UNCHANGED <<closed, locals>>

\* client._authenticate() on a constructed client
_authenticate(status, body) ==
    /\ phase = "ready"
    /\ call' = Call("_authenticate", EmptyDict)
    /\ sent' = <<SessionRequest(access_token, source)>>
    /\ received' = <<Response(status, body)>>
    /\ LET a == _authenticate_response(status, body, session_token)
       IN /\ session_token' = a.token
          /\ outcome' = a.outcome
          /\ closed' = IF a.outcome.kind = "return" /\ status = 200
                       THEN FALSE ELSE closed
    /\ UNCHANGED <<phase, access_token, source, locals>>

------------------------------------------------------------------------------
(* Resource accessors that issue one GET. *)

GetRequest(url, headers) == [method |-> "GET", url |-> url, headers |-> headers]

\* how an accessor ends once its request got (status, body): the accessors
\* that call raise_for_status() before their final `return {}`
accessor_response(status, body) ==
    IF status = 200
    THEN IF json_raises(body) THEN Raise(ErrJSONDecode) ELSE Return(body)
    ELSE IF raise_for_status(status) THEN Raise(ErrHTTP) ELSE Return(EmptyDict)

\* get_relations has no raise_for_status() before its `return {}`
get_relations_response(status, body) ==
    IF status = 200
    THEN IF json_raises(body) THEN Raise(ErrJSONDecode) ELSE Return(body)
    ELSE Return(EmptyDict)

\* requests.get(url, headers=self._get_headers(), timeout=10): the headers
\* are built, or raise, before the request is issued
Accessor(op, args, url, status, body, out) ==
    /\ phase = "ready"
    /\ call' = Call(op, args)
    /\ LET h == _get_headers(session_token)
       IN IF h.raised
          THEN /\ sent' = <<>>
               /\ received' = <<>>
               /\ outcome' = Raise(h.error)
          ELSE /\ sent' = <<GetRequest(url, h.headers)>>
               /\ received' = <<Response(status, body)>>
               /\ outcome' = out
    /\ UNCHANGED <<phase, access_token, source, session_token, closed, locals>>

get_cost_centers(status, body) ==
    Accessor("get_cost_centers", EmptyDict, api_url \o "/costcenter",
             status, body, accessor_response(status, body))

get_cost_center(cc_id, status, body) ==
    Accessor("get_cost_center", [cc_id |-> cc_id],
             api_url \o "/costcenter/" \o cc_id,
             status, body, accessor_response(status, body))

get_invoices(status, body) ==
    Accessor("get_invoices", EmptyDict, api_url \o "/invoice",
             status, body, accessor_response(status, body))

get_ledgers(status, body) ==
    Accessor("get_ledgers", EmptyDict, api_url \o "/ledger",
             status, body, accessor_response(status, body))

get_ledger(led_id, status, body) ==
    Accessor("get_ledger", [led_id |-> led_id], api_url \o "/ledger/" \o led_id,
             status, body, accessor_response(status, body))

get_mutation(mutation_id, status, body) ==
    Accessor("get_mutation", [mutation_id |-> mutation_id],
             api_url \o "/mutation/" \o mutation_id,
             status, body, accessor_response(status, body))

get_outstanding_invoices(status, body) ==
    Accessor("get_outstanding_invoices", EmptyDict,
             api_url \o "/mutation/invoice/outstanding",
             status, body, accessor_response(status, body))

get_relation(rel_id, status, body) ==
    Accessor("get_relation", [rel_id |-> rel_id],
             api_url \o "/relation/" \o rel_id,
             status, body, accessor_response(status, body))

get_relations(status, body) ==
    Accessor("get_relations", EmptyDict, api_url \o "/relation",
             status, body, get_relations_response(status, body))

------------------------------------------------------------------------------
(* get_mutations: the date filter, then the paging loop. *)

\* the call up to the loop: params, all_items = [], page_offset = 0
get_mutations(start_date, end_date, date_range) ==
    /\ phase = "ready"
    /\ call' = Call("get_mutations",
                    [start_date |-> start_date, end_date |-> end_date,
                     date_range |-> date_range])
    /\ sent' = <<>>
    /\ received' = <<>>
    /\ LET f == IF Truthy(start_date) \/ Truthy(end_date)
                THEN _get_date_filter("date", date_range, start_date, end_date)
                ELSE [raised |-> FALSE, error |-> None, filter |-> EmptyDict]
       IN IF f.raised
          THEN /\ phase' = "ready"
               /\ outcome' = Raise(f.error)
               /\ UNCHANGED locals
          ELSE /\ phase' = "paging"
               /\ outcome' = Running
               /\ params' = f.filter
               /\ all_items' = <<>>
               /\ page_offset' = 0
    /\ UNCHANGED <<access_token, source, session_token, closed>>

\* params["offset"] = page_offset; params["limit"] = self.PAGE_LIMIT
page_params(p, offset) == ("offset" :> offset) @@ ("limit" :> PAGE_LIMIT) @@ p

\* page_offset += self.PAGE_LIMIT
next_page_offset_by_one(offset) == offset + 1

next_page_offset(offset) == offset + PAGE_LIMIT

\* all_items.extend(items)
extend(all, items) == all \o items

\* what one response does to the loop: "return", "raise" or "continue"
page_step(status, body) ==
    IF status = 200
    THEN IF json_raises(body) THEN "raise"
         ELSE IF DictGet(body, "items", <<>>) = <<>> THEN "return"
         ELSE "continue"
    ELSE IF raise_for_status(status) THEN "raise" ELSE "continue"

\* the locals once the call has ended
EndOfCall ==
    /\ phase' = "ready"
    /\ params' = EmptyDict
    /\ all_items' = <<>>
    /\ page_offset' = 0

\* one iteration of `while True`
get_mutations_page(status, body) ==
    /\ phase = "paging"
    /\ Len(sent) + 1 < MaxRequests \/ page_step(status, body) # "continue"
    /\ LET p == page_params(params, page_offset)
           h == _get_headers(session_token)
       IN IF h.raised
          THEN /\ outcome' = Raise(h.error)
               /\ EndOfCall
               /\ UNCHANGED <<sent, received>>
          ELSE /\ sent' = Append(sent, [method |-> "GET",
                                        url |-> api_url \o "/mutation",
                                        headers |-> h.headers,
                                        params |-> p])
               /\ received' = Append(received, Response(status, body))
               /\ IF status = 200
                  THEN IF json_raises(body)
                       THEN outcome' = Raise(ErrJSONDecode) /\ EndOfCall
                       ELSE IF DictGet(body, "items", <<>>) = <<>>
                       THEN /\ outcome' = Return([items |-> all_items])
                            /\ EndOfCall
                       ELSE /\ all_items' = extend(all_items, body["items"])
                            /\ page_offset' = next_page_offset(page_offset)
                            /\ params' = p
                            /\ UNCHANGED <<phase, outcome>>
                  ELSE IF raise_for_status(status)
                       THEN outcome' = Raise(ErrHTTP) /\ EndOfCall
                       ELSE /\ params' = p
                            /\ UNCHANGED <<phase, outcome, all_items, page_offset>>
    /\ UNCHANGED <<access_token, source, session_token, closed, call>>

------------------------------------------------------------------------------
(* Session close. *)

\* close() once its DELETE got `status`: the token it leaves, what it returns
close_response_keeps_token(status, tok) ==
    IF status = 204
    THEN [token |-> tok, value |-> TRUE]
    ELSE [token |-> tok, value |-> FALSE]

close_response_always_clears(status, tok) ==
    IF status = 204
    THEN [token |-> None, value |-> TRUE]
    ELSE [token |-> None, value |-> FALSE]

close_response(status, tok) ==
    IF status = 204
    THEN [token |-> None, value |-> TRUE]
    ELSE [token |-> tok, value |-> FALSE]

close(status) ==
    /\ phase = "ready"
    /\ call' = Call("close", EmptyDict)
    /\ LET h == _get_headers(session_token)
           c == close_response(status, session_token)
       IN IF h.raised
          THEN /\ sent' = <<>>
               /\ received' = <<>>
               /\ outcome' = Raise(h.error)
               /\ UNCHANGED <<session_token, closed>>
          ELSE /\ sent' = <<[method |-> "DELETE", url |-> api_url \o "/session",
                             headers |-> h.headers]>>
               /\ received' = <<Response(status, EmptyDict)>>
               /\ session_token' = c.token
               /\ outcome' = Return(c.value)
               /\ closed' = IF status = 204 THEN TRUE ELSE closed
    /\ UNCHANGED <<phase, access_token, source, locals>>

------------------------------------------------------------------------------
(* A direct call of _get_date_filter, which reads nothing of the client. *)

InitFilter ==
    /\ phase = "filter"
    /\ access_token = None
    /\ source = None
    /\ session_token = None
    /\ closed = FALSE
    /\ \E pa \in Parameters, op \in DateFilterOperator \cup {None},
          sd \in StartDates, ed \in EndDates :
          call = [op |-> "_get_date_filter",
                  args |-> [parameter |-> pa, operator |-> op,
                            start_date |-> sd, end_date |-> ed],
                  token0 |-> None, closed0 |-> FALSE]
    /\ sent = <<>>
    /\ received = <<>>
    /\ outcome = Running
    /\ params = EmptyDict
    /\ all_items = <<>>
    /\ page_offset = 0

date_filter_call ==
    /\ phase = "filter"
    /\ LET f == _get_date_filter(call.args.parameter, call.args.operator,
                                 call.args.start_date, call.args.end_date)
       IN outcome' = IF f.raised THEN Raise(f.error) ELSE Return(f.filter)
    /\ phase' = "filter_done"
    /\ UNCHANGED <<access_token, source, session_token, closed, call, sent,
                   received, locals>>

NextFilter == date_filter_call

SpecFilter == InitFilter /\ [][NextFilter]_vars

------------------------------------------------------------------------------
Next ==
    \/ \E c \in CredentialInputs, r \in Responses(SessionBodies) :
          __init__(c, r.status, r.body)
    \/ \E r \in Responses(SessionBodies) : _authenticate(r.status, r.body)
    \/ \E r \in Responses(ResourceBodies) : get_cost_centers(r.status, r.body)
    \/ \E i \in Ids, r \in Responses(ResourceBodies) :
          get_cost_center(i, r.status, r.body)
    \/ \E r \in Responses(ResourceBodies) : get_invoices(r.status, r.body)
    \/ \E r \in Responses(ResourceBodies) : get_ledgers(r.status, r.body)
    \/ \E i \in Ids, r \in Responses(ResourceBodies) :
          get_ledger(i, r.status, r.body)
    \/ \E i \in Ids, r \in Responses(ResourceBodies) :
          get_mutation(i, r.status, r.body)
    \/ \E r \in Responses(ResourceBodies) :
          get_outstanding_invoices(r.status, r.body)
    \/ \E i \in Ids, r \in Responses(ResourceBodies) :
          get_relation(i, r.status, r.body)
    \/ \E r \in Responses(ResourceBodies) : get_relations(r.status, r.body)
    \/ \E sd \in StartDates, ed \in EndDates, op \in DateRanges :
          get_mutations(sd, ed, op)
    \/ \E r \in Responses(MutationBodies) : get_mutations_page(r.status, r.body)
    \/ \E st \in Statuses : close(st)

Spec == Init /\ [][Next]_vars

\* the public operations only: the constructor, the resource operations and
\* close(); _authenticate runs inside the constructor and nowhere else
NextPublic ==
    \/ \E c \in CredentialInputs, r \in Responses(SessionBodies) :
          __init__(c, r.status, r.body)
    \/ \E r \in Responses(ResourceBodies) : get_cost_centers(r.status, r.body)
    \/ \E i \in Ids, r \in Responses(ResourceBodies) :
          get_cost_center(i, r.status, r.body)
    \/ \E r \in Responses(ResourceBodies) : get_invoices(r.status, r.body)
    \/ \E r \in Responses(ResourceBodies) : get_ledgers(r.status, r.body)
    \/ \E i \in Ids, r \in Responses(ResourceBodies) :
          get_ledger(i, r.status, r.body)
    \/ \E i \in Ids, r \in Responses(ResourceBodies) :
          get_mutation(i, r.status, r.body)
    \/ \E r \in Responses(ResourceBodies) :
          get_outstanding_invoices(r.status, r.body)
    \/ \E i \in Ids, r \in Responses(ResourceBodies) :
          get_relation(i, r.status, r.body)
    \/ \E r \in Responses(ResourceBodies) : get_relations(r.status, r.body)
    \/ \E sd \in StartDates, ed \in EndDates, op \in DateRanges :
          get_mutations(sd, ed, op)
    \/ \E r \in Responses(MutationBodies) : get_mutations_page(r.status, r.body)
    \/ \E st \in Statuses : close(st)

SpecPublic == Init /\ [][NextPublic]_vars

------------------------------------------------------------------------------
(* Vocabulary of the properties. *)

AccessorOps ==
    {"get_cost_centers", "get_cost_center", "get_invoices", "get_ledgers",
     "get_ledger", "get_mutation", "get_outstanding_invoices", "get_relation",
     "get_relations"}

ResourceOps == AccessorOps \cup {"get_mutations"}

SessionOps == {"__init__", "_authenticate"}

\* the running call has ended (a get_mutations call is running while paging)
Ended == phase # "paging" /\ outcome.kind \in {"return", "raise"}

Bearer(tok) == "Bearer " \o tok

------------------------------------------------------------------------------
\* C1: a resource operation called while the session token is absent (never
\* authenticated, or after a successful close) raises an error, and that call
\* issues no request: nothing is sent while it runs, it cannot end by
\* returning, and the one step left to a get_mutations call that has reached
\* its loop is the raise.
C1_NoTokenNoRequest ==
    /\ [](call.op \in ResourceOps /\ ~Truthy(call.token0) =>
            /\ sent = <<>>
            /\ received = <<>>
            /\ phase = "paging" \/ outcome.kind = "raise")
    /\ [][phase = "paging" /\ ~Truthy(session_token) =>
            /\ phase' = "ready"
            /\ outcome'.kind = "raise"
            /\ sent' = <<>>]_vars

\* a get_mutations call after a successful close has raised from _get_headers
C1_Witness ==
    /\ call.op = "get_mutations"
    /\ call.closed0
    /\ ~Truthy(call.token0)
    /\ outcome.kind = "raise"
    /\ outcome.error = ErrAuthRequired

\* C2: a session-open response whose status is not 200 makes construction
\* raise and leaves the session token absent: construction never completes
\* normally after a status other than 200.
C2_NonOkSessionOpenRaises ==
    (call.op = "__init__" /\ Len(received) = 1 /\ received[1].status # 200) =>
        /\ outcome.kind = "raise"
        /\ phase = "failed"
        /\ ~Truthy(session_token)

\* C3: once a session-open call that received a 200 has returned, the stored
\* session token is not absent, whatever the body of the 200 was; and every
\* request of a resource call carries Authorization = "Bearer " followed by
\* the stored token.
C3_OkSessionOpenStoresToken ==
    /\ (call.op \in SessionOps /\ outcome.kind = "return"
            /\ received[1].status = 200) => Truthy(session_token)
    /\ call.op \in ResourceOps =>
          \A n \in 1..Len(sent) :
              sent[n].headers.Authorization = Bearer(session_token)
------------------------------------------------------------------------------
(* get_mutations as seen from outside: the pages the service gave. *)

\* the items of a decoded page (a page without an items field has none)
ItemsOf(body) == IF "items" \in DOMAIN body THEN body.items ELSE <<>>

RECURSIVE ConcatPages(_, _)
\* the items of the first n responses, in the order of the requests
ConcatPages(resps, n) ==
    IF n = 0 THEN <<>>
    ELSE ConcatPages(resps, n - 1) \o ItemsOf(resps[n].body)

\* every response so far is a 200 with a JSON body
AllPagesOk ==
    \A n \in 1..Len(received) :
        received[n].status = 200 /\ received[n].body # NotJson

\* the date-filter pair a get_mutations call with these arguments sends
FilterOfCall(args) ==
    IF Truthy(args.start_date) \/ Truthy(args.end_date)
    THEN _get_date_filter("date", args.date_range, args.start_date,
                          args.end_date).filter
    ELSE EmptyDict

\* C4: against a service that answers 200 to every request of a call of
\* get_mutations made with a session token, the call goes on while the
\* pages are non-empty, ends at the first empty page by returning, and has
\* then issued one request per response: request n carries offset
\* 100 * (n - 1), limit 100 and the date-filter pair of the call, and the
\* result is {items: the pages before the empty one, concatenated in
\* request order}.
C4_Pagination ==
    (call.op = "get_mutations" /\ Truthy(call.token0) /\ AllPagesOk) =>
        /\ Len(sent) = Len(received)
        /\ \A n \in 1..Len(sent) :
              /\ DOMAIN sent[n].params =
                    {"offset", "limit"} \cup DOMAIN FilterOfCall(call.args)
              /\ sent[n].params["offset"] = 100 * (n - 1)
              /\ sent[n].params["limit"] = 100
              /\ \A k \in DOMAIN FilterOfCall(call.args) :
                    sent[n].params[k] = FilterOfCall(call.args)[k]
        /\ \A n \in 1..(Len(received) - 1) : ItemsOf(received[n].body) # <<>>
        /\ phase = "paging" =>
              \A n \in 1..Len(received) : ItemsOf(received[n].body) # <<>>
        /\ (phase = "ready" /\ Len(received) > 0) =>
              /\ ItemsOf(received[Len(received)].body) = <<>>
              /\ outcome.kind = "return"
              /\ outcome.value =
                    [items |-> ConcatPages(received, Len(received) - 1)]

\* three non-empty pages and an empty one, with a date filter: four requests
C4_Witness ==
    /\ call.op = "get_mutations"
    /\ AllPagesOk
    /\ Len(sent) = 4
    /\ sent[4].params["offset"] = 300
    /\ DOMAIN FilterOfCall(call.args) # {}
    /\ outcome.kind = "return"
    /\ Len(outcome.value.items) >= 4

\* C5: a page response with a status other than 200 ends get_mutations by
\* raising the HTTP error, with no further request: the loop never issues
\* two requests with the same offset.
C5_NonOkPageAborts ==
    call.op = "get_mutations" =>
        /\ \A i, j \in 1..Len(sent) :
              i # j => sent[i].params["offset"] # sent[j].params["offset"]
        /\ (Ended /\ \E n \in 1..Len(received) : received[n].status # 200) =>
              (outcome.kind = "raise" /\ outcome.error = ErrHTTP)

\* C6: in the Authenticated state every accessor that issues one GET
\* returns the body of a 200 unchanged, and ends every other status by
\* raising the HTTP error.
C6_AccessorStatus ==
    (call.op \in AccessorOps /\ Truthy(call.token0) /\ Len(received) = 1) =>
        /\ (received[1].status = 200 /\ received[1].body # NotJson) =>
              (outcome.kind = "return" /\ outcome.value = received[1].body)
        /\ received[1].status # 200 =>
              (outcome.kind = "raise" /\ outcome.error = ErrHTTP)
------------------------------------------------------------------------------
(* Session close. *)

\* a close() made with a session token has got this status
CloseGot(status_ok) ==
    /\ call.op = "close"
    /\ Truthy(call.token0)
    /\ Len(received) = 1
    /\ (received[1].status = 204) = status_ok

\* a get_mutations call whose date arguments make _get_date_filter raise
FilterRaises(args) ==
    /\ Truthy(args.start_date) \/ Truthy(args.end_date)
    /\ \/ args.date_range = None
       \/ args.date_range = "RANGE" /\ ~Truthy(args.start_date)
       \/ args.date_range = "RANGE" /\ ~Truthy(args.end_date)
       \/ args.date_range # "RANGE" /\ ~Truthy(args.start_date)

DateFilterErrors ==
    {ErrOperatorRequired("date"), ErrRangeBounds} \cup
    {ErrStartRequired(op) : op \in DateFilterOperator}

\* C7 as claimed: close() with a 204 in the Authenticated state clears the
\* token and returns True, and from then until the client is authenticated
\* again every resource operation fails with the session-state error.
C7_ClosedThenSessionError ==
    /\ CloseGot(TRUE) =>
          (session_token = None /\ outcome.kind = "return"
              /\ outcome.value = TRUE /\ closed)
    /\ (call.op \in ResourceOps /\ call.closed0 /\ Ended) =>
          (outcome.kind = "raise" /\ outcome.error = ErrAuthRequired)

\* C7, amended: close() with a 204 in the Authenticated state clears the
\* token and returns True; from then until the client is authenticated again
\* the token stays absent and every resource operation raises without
\* issuing a request: the session-state error, except that get_mutations
\* called with date arguments that _get_date_filter rejects raises that
\* date-filter error, which it checks first.
C7_ClosedThenRaises ==
    /\ CloseGot(TRUE) =>
          (session_token = None /\ outcome.kind = "return"
              /\ outcome.value = TRUE /\ closed)
    /\ closed => ~Truthy(session_token)
    /\ (call.op \in ResourceOps /\ call.closed0) => sent = <<>>
    /\ (call.op \in ResourceOps /\ call.closed0 /\ Ended) =>
          /\ outcome.kind = "raise"
          /\ IF call.op = "get_mutations" /\ FilterRaises(call.args)
             THEN outcome.error \in DateFilterErrors
             ELSE outcome.error = ErrAuthRequired

\* after a close() that returned True an accessor has raised the
\* session-state error
C7_Witness ==
    /\ call.op \in AccessorOps
    /\ call.closed0
    /\ outcome.kind = "raise"
    /\ outcome.error = ErrAuthRequired

\* C8: close() in the Authenticated state with a status other than 204
\* returns False without raising and leaves the session token as it was,
\* and the close() or accessor called next issues its request with that
\* same token.
C8_FailedCloseKeepsToken ==
    /\ [](CloseGot(FALSE) =>
            /\ outcome.kind = "return"
            /\ outcome.value = FALSE
            /\ session_token = call.token0
            /\ ~closed
            /\ sent[1].headers.Authorization = Bearer(call.token0))
    /\ [][(CloseGot(FALSE) /\ call'.op \in AccessorOps \cup {"close"}) =>
            /\ Len(sent') = 1
            /\ sent'[1].headers.Authorization = Bearer(call.token0)]_vars

\* a close() made with a session token got a 500, returned False and left
\* the token in place
C8_Witness ==
    /\ CloseGot(FALSE)
    /\ received[1].status = 500
    /\ outcome.value = FALSE
    /\ sent[1].method = "DELETE"
    /\ Truthy(session_token)

------------------------------------------------------------------------------
(* The date filter. *)

\* a bound that is neither absent nor empty
Present(v) == v \notin {None, ""}

\* the operator as it is written in a query parameter
OperatorName ==
    [EQ |-> "eq", NOT_EQ |-> "not_eq", GT |-> "gt", GTE |-> "gte",
     LT |-> "lt", LTE |-> "lte", RANGE |-> "range"]

\* C9: _get_date_filter(parameter, operator, start, end) raises when the
\* operator is absent, whatever the bounds; with the range operator it
\* raises unless start and end are both present and otherwise returns the
\* one pair parameter[range] -> start,end; with any other operator it raises
\* unless start is present and otherwise returns the one pair
\* parameter[operator] -> start, whatever end is.  It returns no empty
\* filter.
C9_DateFilter ==
    phase = "filter_done" =>
        LET a == call.args
            key == a.parameter \o "[" \o OperatorName[a.operator] \o "]"
        IN IF a.operator = None
           THEN /\ outcome.kind = "raise"
                /\ outcome.error = ErrOperatorRequired(a.parameter)
           ELSE IF a.operator = "RANGE"
           THEN IF Present(a.start_date) /\ Present(a.end_date)
                THEN /\ outcome.kind = "return"
                     /\ DOMAIN outcome.value = {key}
                     /\ outcome.value[key] = a.start_date \o "," \o a.end_date
                ELSE /\ outcome.kind = "raise"
                     /\ outcome.error = ErrRangeBounds
           ELSE IF Present(a.start_date)
                THEN /\ outcome.kind = "return"
                     /\ DOMAIN outcome.value = {key}
                     /\ outcome.value[key] = a.start_date
                ELSE /\ outcome.kind = "raise"
                     /\ outcome.error = ErrStartRequired(a.operator)

\* the range operator with a start and no end has raised
C9_Witness ==
    /\ phase = "filter_done"
    /\ call.args.operator = "RANGE"
    /\ Present(call.args.start_date)
    /\ call.args.end_date = None
    /\ outcome.kind = "raise"

\* C10: a get_mutations call that supplies a date-filter argument (a start
\* date, an end date or an operator) but lacks the operator, or a bound its
\* operator requires, issues no request: it does not go on unfiltered.
C10_BadFilterNoRequest ==
    LET a == call.args
    IN (/\ call.op = "get_mutations"
        /\ Present(a.start_date) \/ Present(a.end_date) \/ a.date_range # None
        /\ \/ a.date_range = None
           \/ a.date_range = "RANGE"
                /\ ~(Present(a.start_date) /\ Present(a.end_date))
           \/ a.date_range # "RANGE" /\ ~Present(a.start_date))
       => sent = <<>>
------------------------------------------------------------------------------
(* The session lifecycle under the public operations. *)

\* the step is a session-open that got a 200 and returned
OpenedStep ==
    /\ call'.op \in SessionOps
    /\ outcome'.kind = "return"
    /\ received'[1].status = 200

\* the step is a close() that got a 204
ClosedStep ==
    /\ call'.op = "close"
    /\ Len(received') = 1
    /\ received'[1].status = 204

\* C11: over the public operations the session token changes value at two
\* kinds of step only: a successful session-open, where it becomes present,
\* and a close() that receives 204, where it becomes absent.  Resource
\* operations, failed close() calls and failed session-opens leave it as it
\* was; the lifecycle moves Unauthenticated -> Authenticated -> Closed only:
\* a present token is left only by closing, and a closed client stays closed
\* with its token absent.
C11_TokenLifecycle ==
    [][/\ session_token' # session_token =>
             \/ OpenedStep /\ ~Truthy(session_token) /\ Truthy(session_token')
             \/ ClosedStep /\ Truthy(session_token) /\ session_token' = None
       /\ Truthy(session_token) /\ ~Truthy(session_token') => ClosedStep
       /\ closed => closed' /\ session_token' = session_token]_vars
\* the session token up to absence: None and "" are both no token
TokenState(tok) == IF Truthy(tok) THEN tok ELSE None

\* The lifecycle with absent tokens identified: the token state changes only
\* by a session-open that got a 200 and stored a token, or by a close() that
\* got a 204; a present token is left only by closing; a closed client
\* stays closed.
TokenLifecycleUpToAbsence ==
    [][/\ TokenState(session_token') # TokenState(session_token) =>
             \/ OpenedStep /\ ~Truthy(session_token) /\ Truthy(session_token')
             \/ ClosedStep /\ Truthy(session_token) /\ session_token' = None
       /\ closed => closed' /\ session_token' = session_token]_vars
------------------------------------------------------------------------------
\* C12: close() called while the session token is absent, as a second close()
\* after one that returned True is, raises the session-state error and issues
\* no DELETE request; it does not return False and leaves the client as it
\* was.  So a close() that has returned, with True or False, was called in
\* the Authenticated state and has issued its DELETE.
C12_CloseWithoutToken ==
    call.op = "close" =>
        /\ ~Truthy(call.token0) =>
              /\ outcome.kind = "raise"
              /\ outcome.error = ErrAuthRequired
              /\ sent = <<>>
              /\ received = <<>>
              /\ session_token = call.token0
              /\ closed = call.closed0
        /\ outcome.kind = "return" =>
              /\ Truthy(call.token0)
              /\ outcome.value \in BOOLEAN
              /\ Len(sent) = 1
              /\ sent[1].method = "DELETE"

\* a second close() after a close() that returned True has raised
C12_Witness ==
    /\ call.op = "close"
    /\ call.closed0
    /\ call.token0 = None
    /\ outcome.kind = "raise"
    /\ outcome.error = ErrAuthRequired
    /\ sent = <<>>
====
